---- MODULE Spec2Model ----
(***************************************************************************)
(* KPI entry service: period windows, scoring, one-entry-per-period guard, *)
(* lock-after-report, department report generation.                        *)
(*                                                                         *)
(* Time.  An instant is a number of clock ticks since 1970-01-01 00:00     *)
(* local time; a day has TicksPerDay ticks and one tick is the resolution  *)
(* of the clock (the source's millisecond).  The server's zone is taken to *)
(* have a fixed offset, so local days are all 24 hours long.               *)
(***************************************************************************)
EXTENDS Integers, Sequences, FiniteSets, TLC

\* ------------------------------------------------------------------ bounds
TicksPerDay == 2      \* clock resolution: ticks in one day
MaxClock == 2         \* the clock runs for at most this many ticks after its start
MaxEntries == 2       \* entries the store holds at most
MaxCalls == 2         \* calls that may be in flight together (SpecConc)
MaxValues == 3        \* values one submission carries at most (SpecPure)
MaxRules == 2         \* scoring rules one scored item has at most (SpecPure)
MaxRoster == 4        \* members one ranked role has at most (SpecPure)

\* ------------------------------------------------------- JavaScript Date
\* days since 1970-01-01 of the civil date y-m-d (m in 1..12)
DaysFromCivil(y, m, d) ==
    LET yy  == IF m <= 2 THEN y - 1 ELSE y
        era == yy \div 400
        yoe == yy - era * 400
        mp  == IF m > 2 THEN m - 3 ELSE m + 9
        doy == (153 * mp + 2) \div 5 + d - 1
        doe == yoe * 365 + yoe \div 4 - yoe \div 100 + doy
    IN  era * 146097 + doe - 719468

\* the civil date of day number z, as [y, m (1..12), d]
CivilFromDays(z) ==
    LET zz  == z + 719468
        era == zz \div 146097
        doe == zz - era * 146097
        yoe == (doe - doe \div 1460 + doe \div 36524 - doe \div 146096) \div 365
        doy == doe - (365 * yoe + yoe \div 4 - yoe \div 100)
        mp  == (5 * doy + 2) \div 153
        d   == doy - (153 * mp + 2) \div 5 + 1
        m   == IF mp < 10 THEN mp + 3 ELSE mp - 9
        y   == yoe + era * 400 + (IF m <= 2 THEN 1 ELSE 0)
    IN  [y |-> y, m |-> m, d |-> d]

DayOf(t) == t \div TicksPerDay

\* Date.prototype.getFullYear / getMonth (0..11) / getDate / getDay (0 = Sunday)
getFullYear(t) == CivilFromDays(DayOf(t)).y
getMonth(t) == CivilFromDays(DayOf(t)).m - 1
getDate(t) == CivilFromDays(DayOf(t)).d
getDay(t) == (DayOf(t) + 4) % 7

\* new Date(year, monthIndex, day): local midnight; monthIndex and day may
\* overflow (monthIndex 12 is January of the next year, day 0 is the last day
\* of the previous month)
NewDate(y, mi, d) ==
    (DaysFromCivil(y + mi \div 12, (mi % 12) + 1, 1) + d - 1) * TicksPerDay

\* date.setHours(0, 0, 0, 0) and date.setHours(23, 59, 59, 999)
StartOfDay(t) == DayOf(t) * TicksPerDay
\* a day end that would stay at midnight
EndOfDayMidnight(t) == DayOf(t) * TicksPerDay
EndOfDay(t) == DayOf(t) * TicksPerDay + TicksPerDay - 1

\* date.toDateString(): weekday, month, day and year of the local date
toDateString(t) == DayOf(t)

\* Math.ceil(a / b) for a >= 0, b > 0
CeilDiv(a, b) == (a + b - 1) \div b


\* ---------------------------------------------------- PeriodCalculator
Frequencies == {"daily", "weekly", "monthly", "quarterly", "yearly"}

\* a window that would start at currentDate itself
PeriodWindowFromNow(frequency, currentDate) ==
    [startDate |-> currentDate, endDate |-> currentDate + TicksPerDay]

\* the [startDate, endDate] that checkFrequencyValidation computes around
\* currentDate; both ends are used inclusively ($gte / $lte)
PeriodWindow(frequency, currentDate) ==
    LET y == getFullYear(currentDate)
        m == getMonth(currentDate)
    IN  CASE frequency = "daily" ->
               LET startDate == NewDate(y, m, getDate(currentDate))
               IN  [startDate |-> startDate, endDate |-> startDate + TicksPerDay]
          [] frequency = "weekly" ->
               LET dayOfWeek == getDay(currentDate)
                   daysToSubtract == IF dayOfWeek = 0 THEN 6 ELSE dayOfWeek - 1
                   startDate == StartOfDay(currentDate - daysToSubtract * TicksPerDay)
               IN  [startDate |-> startDate, endDate |-> startDate + 7 * TicksPerDay]
          [] frequency = "monthly" ->
               [startDate |-> NewDate(y, m, 1),
                endDate |-> EndOfDay(NewDate(y, m + 1, 0))]
          [] frequency = "quarterly" ->
               LET quarter == m \div 3
               IN  [startDate |-> NewDate(y, quarter * 3, 1),
                    endDate |-> EndOfDay(NewDate(y, (quarter + 1) * 3, 0))]
          [] frequency = "yearly" ->
               [startDate |-> NewDate(y, 0, 1),
                endDate |-> EndOfDay(NewDate(y, 11, 31))]

\* getWeekNumber: Math.ceil((pastDaysOfYear + firstDayOfYear.getDay() + 1) / 7),
\* pastDaysOfYear being the (fractional) days since 1 January 00:00
getWeekNumber(date) ==
    LET firstDayOfYear == NewDate(getFullYear(date), 0, 1)
        pastTicksOfYear == date - firstDayOfYear
    IN  CeilDiv(pastTicksOfYear + (getDay(firstDayOfYear) + 1) * TicksPerDay,
                7 * TicksPerDay)

\* the switch of updateKpiEntry: is currentDate in the period of entryDate
IsWithinUpdatePeriod(frequency, entryDate, currentDate) ==
    CASE frequency = "daily" ->
           toDateString(entryDate) = toDateString(currentDate)
      [] frequency = "weekly" ->
           /\ getWeekNumber(entryDate) = getWeekNumber(currentDate)
           /\ getFullYear(entryDate) = getFullYear(currentDate)
      [] frequency = "monthly" ->
           /\ getMonth(entryDate) = getMonth(currentDate)
           /\ getFullYear(entryDate) = getFullYear(currentDate)
      [] frequency = "quarterly" ->
           /\ getMonth(entryDate) \div 3 = getMonth(currentDate) \div 3
           /\ getFullYear(entryDate) = getFullYear(currentDate)
      [] frequency = "yearly" ->
           getFullYear(entryDate) = getFullYear(currentDate)
      [] OTHER -> FALSE

\* ------------------------------------------------------- ScoreEvaluator
\* a value (number | string | boolean) is [t |-> its typeof, n |-> its content];
\* a boolean is 0/1 and a string is an index into the strings in use
Num(n) == [t |-> "number", n |-> n]
Bool(b) == [t |-> "boolean", n |-> IF b THEN 1 ELSE 0]
Str(i) == [t |-> "string", n |-> i]

RangeRule(min, max, score) ==
    [hasMin |-> TRUE, min |-> min, hasMax |-> TRUE, max |-> max,
     hasValue |-> FALSE, value |-> Num(0), score |-> score]
ValueRule(value, score) ==
    [hasMin |-> FALSE, min |-> 0, hasMax |-> FALSE, max |-> 0,
     hasValue |-> TRUE, value |-> value, score |-> score]

\* Array.prototype.filter
RECURSIVE SelectSeqBy(_, _)
SelectSeqBy(s, keep) ==
    IF s = <<>> THEN <<>>
    ELSE (IF keep[1] THEN <<Head(s)>> ELSE <<>>)
         \o SelectSeqBy(Tail(s), Tail(keep))

\* the order in which a stable sort by descending key leaves the indices of keys
RECURSIVE DescOrder(_, _)
DescOrder(keys, n) ==
    IF n = 0 THEN <<>>
    ELSE LET prev == DescOrder(keys, n - 1)
             pos == Cardinality({j \in 1..(n - 1) : keys[prev[j]] >= keys[n]})
         IN  SubSeq(prev, 1, pos) \o <<n>> \o SubSeq(prev, pos + 1, n - 1)

\* rules that would be tried in their declared order
SortDescNone(s, keys) == s

SortDesc(s, keys) == [i \in 1..Len(s) |-> s[DescOrder(keys, Len(s))[i]]]

\* the score of the first rule of rules (from index i on) that matches
RECURSIVE FirstPercentage(_, _, _)
FirstPercentage(value, rules, i) ==
    IF i > Len(rules) THEN 0
    ELSE IF value.n >= rules[i].value.n THEN rules[i].score
    ELSE FirstPercentage(value, rules, i + 1)

\* a loop that would compare an exact value loosely, whatever its type
RECURSIVE FirstMatchLoose(_, _, _)
FirstMatchLoose(value, rules, i) ==
    IF i > Len(rules) THEN 0
    ELSE LET rule == rules[i] IN
         IF rule.hasMin /\ rule.hasMax
         THEN IF value.t = "number" /\ value.n >= rule.min /\ value.n <= rule.max
              THEN rule.score
              ELSE FirstMatchLoose(value, rules, i + 1)
         ELSE IF rule.hasValue /\ value.n = rule.value.n
              THEN rule.score
              ELSE FirstMatchLoose(value, rules, i + 1)

RECURSIVE FirstMatch(_, _, _)
FirstMatch(value, rules, i) ==
    IF i > Len(rules) THEN 0
    ELSE LET rule == rules[i] IN
         IF rule.hasMin /\ rule.hasMax
         THEN IF value.t = "number" /\ value.n >= rule.min /\ value.n <= rule.max
              THEN rule.score
              ELSE FirstMatch(value, rules, i + 1)
         ELSE IF rule.hasValue /\ value = rule.value
              THEN rule.score
              ELSE FirstMatch(value, rules, i + 1)

calculateScore(value, scoringRules, kpiType) ==
    IF kpiType = "score" /\ value.t = "number" THEN value.n
    ELSE IF kpiType = "percentage" /\ value.t = "number"
    THEN LET withValue == SelectSeqBy(scoringRules,
                              [i \in 1..Len(scoringRules) |-> scoringRules[i].hasValue])
             sortedRules == SortDesc(withValue,
                              [i \in 1..Len(withValue) |-> withValue[i].value.n])
         IN  FirstPercentage(value, sortedRules, 1)
    ELSE FirstMatch(value, scoringRules, 1)

\* ------------------------------------------------------- EntryValidator
Names(s) == {s[i].name : i \in 1..Len(s)}

\* a lookup that would fall back on the first item
FindItemOrFirst(templateItems, name) ==
    IF name \in Names(templateItems)
    THEN CHOOSE i \in 1..Len(templateItems) :
            /\ templateItems[i].name = name
            /\ \A j \in 1..(i - 1) : templateItems[j].name # name
    ELSE 1

\* templateItems.find((item) => item.name === name): its index, 0 when absent
FindItem(templateItems, name) ==
    IF name \in Names(templateItems)
    THEN CHOOSE i \in 1..Len(templateItems) :
            /\ templateItems[i].name = name
            /\ \A j \in 1..(i - 1) : templateItems[j].name # name
    ELSE 0

\* a check that would require the dynamic items too
missingKpis(values, templateItems) ==
    LET providedKpiNames == Names(values)
        names == [i \in 1..Len(templateItems) |-> templateItems[i].name]
    IN  SelectSeqBy(names,
            [i \in 1..Len(templateItems) |->
                templateItems[i].name \notin providedKpiNames])

\* validateRequiredValues: the names of the non-dynamic items not provided, in
\* template order; the call throws when there is one
missingNonDynamicKpis(values, templateItems) ==
    LET providedKpiNames == Names(values)
        names == [i \in 1..Len(templateItems) |-> templateItems[i].name]
    IN  SelectSeqBy(names,
            [i \in 1..Len(templateItems) |->
                ~templateItems[i].isDynamic
                /\ templateItems[i].name \notin providedKpiNames])

Failure(status, title) == [ok |-> FALSE, status |-> status, title |-> title]

\* a loop that would score the bypassed values by the rules as well
RECURSIVE ValidateLoopByRules(_, _, _, _)
ValidateLoopByRules(values, templateItems, i, acc) ==
    IF i > Len(values) THEN [ok |-> TRUE, values |-> acc]
    ELSE LET value == values[i]
             k == FindItem(templateItems, value.name)
         IN  IF k = 0 THEN ValidateLoopByRules(values, templateItems, i + 1, acc)
             ELSE LET templateItem == templateItems[k]
                      out(score) == [name |-> value.name, value |-> value.value,
                                     score |-> score, isByPassed |-> value.isByPassed]
                  IN  IF /\ templateItem.kpiType \in {"quantitative", "percentage", "score"}
                         /\ value.value.t # "number"
                      THEN Failure(400, "Invalid value type")
                      ELSE IF /\ templateItem.kpiType = "binary"
                              /\ value.value.t # "boolean"
                           THEN Failure(400, "Invalid value type")
                      ELSE ValidateLoopByRules(values, templateItems, i + 1,
                              Append(acc, out(calculateScore(value.value,
                                  templateItem.scoringRules, templateItem.kpiType))))

\* a loop that would let a supplied score stand for any value
RECURSIVE ValidateLoopSupplied(_, _, _, _)
ValidateLoopSupplied(values, templateItems, i, acc) ==
    IF i > Len(values) THEN [ok |-> TRUE, values |-> acc]
    ELSE LET value == values[i]
             k == FindItem(templateItems, value.name)
         IN  IF k = 0 THEN ValidateLoopSupplied(values, templateItems, i + 1, acc)
             ELSE LET templateItem == templateItems[k]
                      out(score) == [name |-> value.name, value |-> value.value,
                                     score |-> score, isByPassed |-> value.isByPassed]
                  IN  IF value.isByPassed
                      THEN IF ~value.hasScore
                           THEN Failure(400, "Missing score field")
                           ELSE ValidateLoopSupplied(values, templateItems, i + 1,
                                             Append(acc, out(value.score)))
                      ELSE IF /\ templateItem.kpiType \in {"quantitative", "percentage", "score"}
                              /\ value.value.t # "number"
                           THEN Failure(400, "Invalid value type")
                      ELSE IF /\ templateItem.kpiType = "binary"
                              /\ value.value.t # "boolean"
                           THEN Failure(400, "Invalid value type")
                      ELSE ValidateLoopSupplied(values, templateItems, i + 1,
                              Append(acc, out(IF value.hasScore THEN value.score
                                  ELSE calculateScore(value.value,
                                  templateItem.scoringRules, templateItem.kpiType))))

\* the loop of validateAndCalculateScores from value i on, acc the values
\* pushed so far
RECURSIVE ValidateLoop(_, _, _, _)
ValidateLoop(values, templateItems, i, acc) ==
    IF i > Len(values) THEN [ok |-> TRUE, values |-> acc]
    ELSE LET value == values[i]
             k == FindItem(templateItems, value.name)
         IN  IF k = 0 THEN ValidateLoop(values, templateItems, i + 1, acc)
             ELSE LET templateItem == templateItems[k]
                      out(score) == [name |-> value.name, value |-> value.value,
                                     score |-> score, isByPassed |-> value.isByPassed]
                  IN  IF value.isByPassed
                      THEN IF ~value.hasScore
                           THEN Failure(400, "Missing score field")
                           ELSE ValidateLoop(values, templateItems, i + 1,
                                             Append(acc, out(value.score)))
                      ELSE IF /\ templateItem.kpiType \in {"quantitative", "percentage", "score"}
                              /\ value.value.t # "number"
                           THEN Failure(400, "Invalid value type")
                      ELSE IF /\ templateItem.kpiType = "binary"
                              /\ value.value.t # "boolean"
                           THEN Failure(400, "Invalid value type")
                      ELSE ValidateLoop(values, templateItems, i + 1,
                              Append(acc, out(calculateScore(value.value,
                                  templateItem.scoringRules, templateItem.kpiType))))

validateAndCalculateScores(values, templateItems) ==
    IF missingNonDynamicKpis(values, templateItems) # <<>>
    THEN [ok |-> FALSE, status |-> 400, title |-> "Missing required values",
          missing |-> missingNonDynamicKpis(values, templateItems)]
    ELSE ValidateLoop(values, templateItems, 1, <<>>)

\* validatedValues.reduce((sum, value) => sum + value.score, 0)
RECURSIVE SumScores(_)
SumScores(values) ==
    IF values = <<>> THEN 0 ELSE Head(values).score + SumScores(Tail(values))


\* ------------------------------------------------------ RankingEngine
\* Math.round(num / den) for num >= 0, den > 0
RoundDiv(num, den) == (2 * num + den) \div (2 * den)

\* Math.round((membersWithEntries / totalMembers) * 100); 0 / 0 is NaN
completionRate(membersWithEntries, totalMembers) ==
    IF totalMembers = 0
    THEN [isNaN |-> TRUE, n |-> 0]
    ELSE [isNaN |-> FALSE, n |-> RoundDiv(membersWithEntries * 100, totalMembers)]

\* a forEach that would number the distinct scores 1, 2, 3 without gaps
RECURSIVE AssignRanksDense(_, _, _, _)
AssignRanksDense(rankings, i, currentRank, currentScore) ==
    IF i > Len(rankings) THEN rankings
    ELSE LET changed == rankings[i].totalScore # currentScore
             rank == IF changed THEN currentRank + 1 ELSE currentRank
             score == IF changed THEN rankings[i].totalScore ELSE currentScore
         IN  AssignRanksDense([rankings EXCEPT ![i].ranking = rank], i + 1, rank, score)

\* the forEach that assigns rankings, from index i on
RECURSIVE AssignRanks(_, _, _, _)
AssignRanks(rankings, i, currentRank, currentScore) ==
    IF i > Len(rankings) THEN rankings
    ELSE LET changed == rankings[i].totalScore # currentScore
             rank == IF changed THEN i ELSE currentRank
             score == IF changed THEN rankings[i].totalScore ELSE currentScore
         IN  AssignRanks([rankings EXCEPT ![i].ranking = rank], i + 1, rank, score)

RECURSIVE SumTotalScores(_)
SumTotalScores(rankings) ==
    IF rankings = <<>> THEN 0
    ELSE Head(rankings).totalScore + SumTotalScores(Tail(rankings))

WithEntry(rankings) ==
    SelectSeqBy(rankings, [i \in 1..Len(rankings) |-> rankings[i].hasEntry])

\* the rankings and statistics of one role: members is the role's members in
\* roster order, entriesMap the entry (id and document) found for each member
RoleReport(role, members, entriesMap) ==
    LET unsorted == [i \in 1..Len(members) |->
            LET entry == entriesMap[members[i].userId] IN
            [memberId |-> members[i].userId,
             memberDepartment |-> members[i].departmentSlug,
             memberRole |-> members[i].role,
             ranking |-> 0,
             totalScore |-> IF entry.id # 0 THEN entry.totalScore ELSE 0,
             hasEntry |-> entry.id # 0,
             entryId |-> entry.id,
             status |-> IF entry.id # 0 THEN entry.status ELSE "no-entry"]]
        sorted == SortDesc(unsorted, [i \in 1..Len(unsorted) |-> unsorted[i].totalScore])
        rankings == IF sorted = <<>> THEN sorted
                    ELSE AssignRanks(sorted, 1, 1, sorted[1].totalScore)
        totalMembers == Len(rankings)
        membersWithEntries == Len(WithEntry(rankings))
    IN  [role |-> role,
         rankings |-> rankings,
         statistics |->
            [totalMembers |-> totalMembers,
             membersWithEntries |-> membersWithEntries,
             membersWithoutEntries |-> totalMembers - membersWithEntries,
             \* averageScore in hundredths: Math.round(averageScore * 100)
             averageScore |-> IF membersWithEntries > 0
                              THEN RoundDiv(SumTotalScores(WithEntry(rankings)) * 100,
                                            membersWithEntries)
                              ELSE 0,
             highestScore |-> IF Len(rankings) > 0 THEN rankings[1].totalScore ELSE 0,
             lowestScore |-> IF membersWithEntries > 0
                             THEN WithEntry(rankings)[membersWithEntries].totalScore
                             ELSE 0,
             completionRate |-> completionRate(membersWithEntries, totalMembers)]]

\* --------------------------------------------------------- collaborators
Absent == "absent"          \* a field the request body does not contain

\* member directory (read-only to the entry service), in store order
MemberDocs ==
    << [userId |-> "m1", role |-> "sales", departmentSlug |-> "d1"],
       [userId |-> "m2", role |-> "support", departmentSlug |-> "d1"] >>

MemberIds == {MemberDocs[i].userId : i \in 1..Len(MemberDocs)}
Departments == {"d1", "d2"}

\* MemberService.getMember: { ...member, user }, an object also when no
\* member record matches (its role is then undefined)
getMember(id) ==
    IF id \in MemberIds
    THEN LET m == CHOOSE i \in 1..Len(MemberDocs) : MemberDocs[i].userId = id
         IN  [role |-> MemberDocs[m].role]
    ELSE [role |-> "undefined"]

\* MemberService.getMembers({ department, page: 1, limit: 1000 }).docs
getMembers(department) ==
    SelectSeqBy(MemberDocs,
        [i \in 1..Len(MemberDocs) |-> MemberDocs[i].departmentSlug = department])

\* template items of the two templates in the store
SalesItems ==
    << [name |-> "calls", kpiType |-> "quantitative", maxMarks |-> 3,
        isDynamic |-> FALSE,
        scoringRules |-> << RangeRule(0, 4, 1), RangeRule(5, 9, 3) >>],
       [name |-> "attendance", kpiType |-> "percentage", maxMarks |-> 5,
        isDynamic |-> TRUE,
        scoringRules |-> << ValueRule(Num(75), 3), ValueRule(Num(90), 5) >>] >>

\* the template store: t1 is the sales template, of any frequency
TemplateStores ==
    { [t1 |-> [name |-> "Sales KPI", role |-> "sales", frequency |-> f,
               template |-> SalesItems]] : f \in Frequencies }

TemplateIds == {"t1"}

\* noon of a local date
Noon(y, mi, d) == NewDate(y, mi, d) + TicksPerDay \div 2

\* the instants at which the clock may start: noon of Fri 30 Jan 2026 (Saturday
\* and the month boundary follow) and noon of Wed 31 Dec 2025 (the quarter and
\* year boundary follows, inside a week)
StartInstants == { Noon(2026, 0, 30), Noon(2025, 11, 31) }

\* ---------------------------------------------------------------- inputs
UserIds == {"admin"}

SV(name, value) ==
    [name |-> name, value |-> value, hasScore |-> FALSE, score |-> 0,
     isByPassed |-> FALSE]

\* the values arrays that request bodies carry: two that satisfy the sales
\* template and one that lacks its required item
SubmittedValues ==
    { << SV("calls", Num(7)) >>,
      << SV("calls", Num(2)), SV("attendance", Num(80)) >>,
      << SV("attendance", Num(80)) >> }

\* bodies of POST /kpi-entry (the handler passes request.body unparsed); tX
\* names no template and mX no member; one body carries a totalScore
CreateBodies ==
    [kpiTemplateId : TemplateIds, createdFor : MemberIds,
     values : SubmittedValues, status : {Absent, "generated"},
     hasTotalScore : {FALSE}, totalScore : {0}]
    \cup [kpiTemplateId : {"tX"}, createdFor : {"m1"},
          values : {<< SV("calls", Num(7)) >>}, status : {Absent},
          hasTotalScore : {FALSE}, totalScore : {0}]
    \cup [kpiTemplateId : {"t1"}, createdFor : {"mX"},
          values : {<< SV("calls", Num(7)) >>}, status : {Absent},
          hasTotalScore : {FALSE}, totalScore : {0}]
    \cup [kpiTemplateId : {"t1"}, createdFor : {"m1"},
          values : {<< SV("calls", Num(7)) >>}, status : {Absent},
          hasTotalScore : {TRUE}, totalScore : {99}]

\* arguments of generateReportByDepartment; d2 has no member
GenerateArgs == { <<"d1", "t1">>, <<"d2", "t1">>, <<"d1", "tX">> }

NoPatch ==
    [hasValues |-> FALSE, values |-> <<>>, status |-> Absent,
     createdFor |-> Absent, kpiTemplateId |-> Absent,
     hasTotalScore |-> FALSE, totalScore |-> 0]

\* bodies of PUT /kpi-entry/:id
Patches ==
    {NoPatch}
    \cup {[NoPatch EXCEPT !.hasValues = TRUE, !.values = v] : v \in SubmittedValues}
    \cup {[NoPatch EXCEPT !.status = st] : st \in {"initiated", "generated"}}
    \cup {[NoPatch EXCEPT !.createdFor = m] : m \in MemberIds}
    \cup {[NoPatch EXCEPT !.kpiTemplateId = t] : t \in TemplateIds \cup {"tX"}}
    \cup {[NoPatch EXCEPT !.hasTotalScore = TRUE, !.totalScore = 99]}

\* ----------------------------------------------------------------- state
VARIABLES
    now,        \* the clock: new Date()
    templates,  \* the template store (read-only to the entry service)
    entries,    \* the entry store, in insertion order; an entry's _id is its index
    pc,         \* for each call slot, the await at which its call is suspended
    call,       \* for each call slot, the locals of its call
    resp,       \* for each call slot, what its last completed call returned or threw
    reported,   \* for each entry, in how many returned reports it appears (up to 2)
    sink        \* the audit sink: "up" when it takes a record, "down" when it fails

vars == <<now, templates, entries, pc, call, resp, reported, sink>>

Calls == 1..MaxCalls

IdleCall == [op |-> "none"]
NoResp == [status |-> 0, title |-> "", message |-> ""]
Pass == [status |-> 0, title |-> "pass", message |-> ""]

Error(status, title, message) ==
    [status |-> status, title |-> title, message |-> message]

TemplateOrMemberNotFound == Error(404, "KPI template or member not found", "")
RoleMismatch == Error(400, "Template is not for this role", "")
PeriodConflict == Error(409, "KPI entry already exists for this period", "")
ReportAlreadyGenerated == Error(409, "Generated KPI entry exists", "")
EntryNotFound == Error(404, "KPI entry not found", "")
TemplateNotFound == Error(404, "KPI template not found", "")
EntryLocked ==
    Error(400, "Update not allowed",
          "Cannot update KPI entries that have been generated")
UpdateWindowClosed ==
    Error(400, "Update not allowed",
          "Updates are not allowed after the period has ended")
ValidationError(v) == Error(v.status, v.title, "")

\* KpiTemplateService.getKpiTemplate: findById, null when absent
HasTemplate(id) == id \in DOMAIN templates
getKpiTemplate(id) == templates[id]

EntryIds == 1..Len(entries)
Range(s) == {s[i] : i \in 1..Len(s)}

\* the call in slot p completes with response r
Return(p, r) ==
    /\ pc' = [pc EXCEPT ![p] = "idle"]
    /\ call' = [call EXCEPT ![p] = IdleCall]
    /\ resp' = [resp EXCEPT ![p] = r]

\* the call in slot p suspends at the await named next, with locals c
Await(p, next, c) ==
    /\ pc' = [pc EXCEPT ![p] = next]
    /\ call' = [call EXCEPT ![p] = c]
    /\ UNCHANGED resp

\* KpiAuditLogService.create(record), called and not awaited: what becomes of
\* the record of the given action. The sink stores it when it is up; when it
\* is down the promise it returned rejects, with nobody awaiting it
KpiAuditLogServiceCreate(action) ==
    [action |-> action, outcome |-> IF sink = "up" THEN "logged" ELSE "rejected"]

\* the call that left response r emitted an audit record
IsAudited(r) == "audit" \in DOMAIN r

\* the store has room for the entry of one more createKpiEntry call
StoreHasRoom ==
    Len(entries)
      + Cardinality({q \in Calls : pc[q] \in {"createGenerated", "createWrite"}})
      < MaxEntries

Init ==
    /\ now \in StartInstants
    /\ templates \in TemplateStores
    /\ entries = <<>>
    /\ pc = [p \in Calls |-> "idle"]
    /\ call = [p \in Calls |-> IdleCall]
    /\ resp = [p \in Calls |-> NoResp]
    /\ reported = <<>>
    /\ sink = "up"

\* the clock advances by one tick
Tick ==
    /\ \E s \in StartInstants : s <= now /\ now < s + MaxClock
    /\ now' = now + 1
    /\ UNCHANGED <<sink, templates, entries, pc, call, resp, reported>>

\* ------------------------------------------------------- createKpiEntry
\* checkFrequencyValidation: is there an entry of the pair created inside the
\* window around currentDate
checkFrequencyValidation(kpiTemplateId, createdFor, frequency, currentDate) ==
    LET w == PeriodWindow(frequency, currentDate)
    IN  \E i \in EntryIds :
            /\ entries[i].kpiTemplateId = kpiTemplateId
            /\ entries[i].createdFor = createdFor
            /\ entries[i].createdAt >= w.startDate
            /\ entries[i].createdAt <= w.endDate

\* createKpiEntry up to the end of its frequency check: what it throws, or Pass
CreatePrecheck(kpiEntry) ==
    IF ~HasTemplate(kpiEntry.kpiTemplateId)
    THEN TemplateOrMemberNotFound
    ELSE LET template == getKpiTemplate(kpiEntry.kpiTemplateId)
             member == getMember(kpiEntry.createdFor)
         IN  IF template.role # member.role THEN RoleMismatch
             ELSE IF checkFrequencyValidation(kpiEntry.kpiTemplateId,
                         kpiEntry.createdFor, template.frequency, now)
             THEN PeriodConflict
             ELSE Pass

\* KpiEntryModel.findOne({ kpiTemplateId, createdFor, status: 'generated' })
existingGeneratedEntry(kpiEntry) ==
    \E i \in EntryIds :
        /\ entries[i].kpiTemplateId = kpiEntry.kpiTemplateId
        /\ entries[i].createdFor = kpiEntry.createdFor
        /\ entries[i].status = "generated"

\* createKpiEntry from the lookup of a generated entry to the computed scores:
\* what it throws, or Pass
CreateScoring(kpiEntry) ==
    LET validated == validateAndCalculateScores(kpiEntry.values,
                        getKpiTemplate(kpiEntry.kpiTemplateId).template)
    IN  IF existingGeneratedEntry(kpiEntry) THEN ReportAlreadyGenerated
        ELSE IF ~validated.ok THEN ValidationError(validated)
        ELSE Pass

\* the document KpiEntryModel.create stores for
\* { ...kpiEntry, values: validatedValues, totalScore, createdBy, createdFor }:
\* the computed totalScore replaces the one the body spreads in
NewEntry(kpiEntry, userId, at) ==
    LET validatedValues == validateAndCalculateScores(kpiEntry.values,
                              getKpiTemplate(kpiEntry.kpiTemplateId).template).values
    IN  [kpiTemplateId |-> kpiEntry.kpiTemplateId,
         createdFor |-> kpiEntry.createdFor,
         createdBy |-> userId,
         status |-> IF kpiEntry.status = Absent THEN "initiated" ELSE kpiEntry.status,
         values |-> validatedValues,
         totalScore |-> SumScores(validatedValues),
         createdAt |-> at]

\* a write that would refuse a second entry of the pair, as a unique index on
\* the pair would
StoreEntryUnique(p, kpiEntry, userId, checkedAt) ==
    IF \E i \in EntryIds : /\ entries[i].kpiTemplateId = kpiEntry.kpiTemplateId
                           /\ entries[i].createdFor = kpiEntry.createdFor
    THEN Return(p, Error(409, "duplicate key", "")) /\ UNCHANGED <<entries, reported>>
    ELSE /\ entries' = Append(entries, NewEntry(kpiEntry, userId, now))
         /\ reported' = Append(reported, 0)
         /\ Return(p, [status |-> 201, title |-> "", message |-> "",
                       entryId |-> Len(entries) + 1, checkedAt |-> checkedAt,
                       audit |-> KpiAuditLogServiceCreate("create")])

\* KpiEntryModel.create, the audit record and the return of the new entry;
\* checkedAt is the size the store had when the frequency check read it
StoreEntry(p, kpiEntry, userId, checkedAt) ==
    /\ entries' = Append(entries, NewEntry(kpiEntry, userId, now))
    /\ reported' = Append(reported, 0)
    /\ Return(p, [status |-> 201, title |-> "", message |-> "",
                  entryId |-> Len(entries) + 1, checkedAt |-> checkedAt,
                  audit |-> KpiAuditLogServiceCreate("create")])

\* a create that would look for a generated entry of the pair only after it
\* has written its own
createKpiEntryWriteFirst(p, kpiEntry, userId) ==
    /\ pc[p] = "idle"
    /\ StoreHasRoom
    /\ UNCHANGED <<now, sink, templates>>
    /\ IF CreatePrecheck(kpiEntry) # Pass
       THEN Return(p, CreatePrecheck(kpiEntry)) /\ UNCHANGED <<entries, reported>>
       ELSE IF CreateScoring(kpiEntry) \notin {Pass, ReportAlreadyGenerated}
       THEN Return(p, CreateScoring(kpiEntry)) /\ UNCHANGED <<entries, reported>>
       ELSE IF CreateScoring(kpiEntry) = ReportAlreadyGenerated
               /\ validateAndCalculateScores(kpiEntry.values,
                      getKpiTemplate(kpiEntry.kpiTemplateId).template).ok
       THEN /\ entries' = Append(entries, NewEntry(kpiEntry, userId, now))
            /\ reported' = Append(reported, 0)
            /\ Return(p, ReportAlreadyGenerated)
       ELSE IF CreateScoring(kpiEntry) = ReportAlreadyGenerated
       THEN Return(p, CreateScoring(kpiEntry)) /\ UNCHANGED <<entries, reported>>
       ELSE StoreEntry(p, kpiEntry, userId, Len(entries))

\* a whole createKpiEntry call
createKpiEntry(p, kpiEntry, userId) ==
    /\ pc[p] = "idle"
    /\ StoreHasRoom
    /\ UNCHANGED <<now, sink, templates>>
    /\ IF CreatePrecheck(kpiEntry) # Pass
       THEN Return(p, CreatePrecheck(kpiEntry)) /\ UNCHANGED <<entries, reported>>
       ELSE IF CreateScoring(kpiEntry) # Pass
       THEN Return(p, CreateScoring(kpiEntry)) /\ UNCHANGED <<entries, reported>>
       ELSE StoreEntry(p, kpiEntry, userId, Len(entries))

\* createKpiEntry from its start to the await of its frequency check
CreateStart(p, kpiEntry, userId) ==
    /\ pc[p] = "idle"
    /\ StoreHasRoom
    /\ UNCHANGED <<now, sink, templates, entries, reported>>
    /\ IF CreatePrecheck(kpiEntry) # Pass
       THEN Return(p, CreatePrecheck(kpiEntry))
       ELSE Await(p, "createGenerated",
                  [op |-> "create", kpiEntry |-> kpiEntry, userId |-> userId,
                   checkedAt |-> Len(entries)])

\* createKpiEntry from there to the await of its lookup of a generated entry
CreateCheckGenerated(p) ==
    /\ pc[p] = "createGenerated"
    /\ UNCHANGED <<now, sink, templates, entries, reported>>
    /\ IF CreateScoring(call[p].kpiEntry) # Pass
       THEN Return(p, CreateScoring(call[p].kpiEntry))
       ELSE Await(p, "createWrite", call[p])

\* createKpiEntry from there to its return
CreateWrite(p) ==
    /\ pc[p] = "createWrite"
    /\ StoreEntry(p, call[p].kpiEntry, call[p].userId, call[p].checkedAt)
    /\ UNCHANGED <<now, sink, templates>>

\* ------------------------------------------------------- updateKpiEntry
\* an update that would not look at the status of the entry
UpdateCheckUnlocked(entryId, updateData) ==
    IF entryId \notin EntryIds THEN EntryNotFound
    ELSE LET existingEntry == entries[entryId] IN
         IF ~HasTemplate(existingEntry.kpiTemplateId) THEN TemplateNotFound
         ELSE LET template == getKpiTemplate(existingEntry.kpiTemplateId)
                  validated == validateAndCalculateScores(updateData.values,
                                                          template.template)
              IN  IF ~IsWithinUpdatePeriod(template.frequency,
                                           existingEntry.createdAt, now)
                  THEN UpdateWindowClosed
                  ELSE IF updateData.hasValues /\ ~validated.ok
                  THEN ValidationError(validated)
                  ELSE Pass

\* updateKpiEntry up to the computed scores, on the entry document it read:
\* what it throws, or Pass
UpdateCheck(entryId, updateData) ==
    IF entryId \notin EntryIds THEN EntryNotFound
    ELSE LET existingEntry == entries[entryId] IN
         IF existingEntry.status = "generated" THEN EntryLocked
         ELSE IF ~HasTemplate(existingEntry.kpiTemplateId) THEN TemplateNotFound
         ELSE LET template == getKpiTemplate(existingEntry.kpiTemplateId)
                  validated == validateAndCalculateScores(updateData.values,
                                                          template.template)
              IN  IF ~IsWithinUpdatePeriod(template.frequency,
                                           existingEntry.createdAt, now)
                  THEN UpdateWindowClosed
                  ELSE IF updateData.hasValues /\ ~validated.ok
                  THEN ValidationError(validated)
                  ELSE Pass

\* validatedValues of an update that passed UpdateCheck
UpdateValues(entryId, updateData) ==
    IF updateData.hasValues
    THEN validateAndCalculateScores(updateData.values,
            getKpiTemplate(entries[entryId].kpiTemplateId).template).values
    ELSE entries[entryId].values

\* an update that would keep the totalScore the entry had
UpdatedEntryOldTotal(entry, updateData, validatedValues) ==
    [kpiTemplateId |-> IF updateData.kpiTemplateId = Absent
                       THEN entry.kpiTemplateId ELSE updateData.kpiTemplateId,
     createdFor |-> IF updateData.createdFor = Absent
                    THEN entry.createdFor ELSE updateData.createdFor,
     createdBy |-> entry.createdBy,
     status |-> IF updateData.status = Absent
                THEN entry.status ELSE updateData.status,
     values |-> validatedValues,
     totalScore |-> IF updateData.hasTotalScore
                    THEN updateData.totalScore ELSE entry.totalScore,
     createdAt |-> entry.createdAt]

\* the document findByIdAndUpdate leaves for the update
\* { ...updateData, values: validatedValues, totalScore }: the computed
\* totalScore replaces the one the patch spreads in
UpdatedEntry(entry, updateData, validatedValues) ==
    [kpiTemplateId |-> IF updateData.kpiTemplateId = Absent
                       THEN entry.kpiTemplateId ELSE updateData.kpiTemplateId,
     createdFor |-> IF updateData.createdFor = Absent
                    THEN entry.createdFor ELSE updateData.createdFor,
     createdBy |-> entry.createdBy,
     status |-> IF updateData.status = Absent
                THEN entry.status ELSE updateData.status,
     values |-> validatedValues,
     totalScore |-> SumScores(validatedValues),
     createdAt |-> entry.createdAt]

\* an update that would await the audit sink inside its try block, and so
\* throw what the sink throws after the entry was written
ApplyUpdateAwaitingAudit(p, entryId, updateData, validatedValues) ==
    /\ entries' = [entries EXCEPT ![entryId] =
                      UpdatedEntry(@, updateData, validatedValues)]
    /\ Return(p, IF sink = "up"
                 THEN [status |-> 200, title |-> "", message |-> "",
                       entryId |-> entryId,
                       audit |-> KpiAuditLogServiceCreate("update")]
                 ELSE Error(500, "Internal Server Error", ""))

\* findByIdAndUpdate, the audit record and the return of the updated entry
ApplyUpdate(p, entryId, updateData, validatedValues) ==
    /\ entries' = [entries EXCEPT ![entryId] =
                      UpdatedEntry(@, updateData, validatedValues)]
    /\ Return(p, [status |-> 200, title |-> "", message |-> "",
                  entryId |-> entryId,
                  audit |-> KpiAuditLogServiceCreate("update")])

\* a whole updateKpiEntry call
updateKpiEntry(p, entryId, updateData, userId) ==
    /\ pc[p] = "idle"
    /\ UNCHANGED <<now, sink, templates, reported>>
    /\ IF UpdateCheck(entryId, updateData) # Pass
       THEN Return(p, UpdateCheck(entryId, updateData)) /\ UNCHANGED entries
       ELSE ApplyUpdate(p, entryId, updateData, UpdateValues(entryId, updateData))

\* updateKpiEntry from its start to the await of findByIdAndUpdate
UpdateStart(p, entryId, updateData, userId) ==
    /\ pc[p] = "idle"
    /\ UNCHANGED <<now, sink, templates, entries, reported>>
    /\ IF UpdateCheck(entryId, updateData) # Pass
       THEN Return(p, UpdateCheck(entryId, updateData))
       ELSE Await(p, "updateWrite",
                  [op |-> "update", entryId |-> entryId,
                   updateData |-> updateData, userId |-> userId,
                   validatedValues |-> UpdateValues(entryId, updateData)])

\* updateKpiEntry from there to its return
UpdateWrite(p) ==
    /\ pc[p] = "updateWrite"
    /\ ApplyUpdate(p, call[p].entryId, call[p].updateData, call[p].validatedValues)
    /\ UNCHANGED <<now, sink, templates, reported>>

\* ------------------------------------------- generateReportByDepartment
\* KpiEntryModel.find({ kpiTemplateId, createdFor: { $in: roster },
\* status: { $ne: 'generated' } }): the ids found, in store order
SelectEntries(templateId, roster) ==
    SelectSeqBy([i \in EntryIds |-> i],
        [i \in EntryIds |->
            /\ entries[i].kpiTemplateId = templateId
            /\ entries[i].createdFor \in {roster[j].userId : j \in 1..Len(roster)}
            /\ entries[i].status # "generated"])

NoEntry == [id |-> 0, totalScore |-> 0, status |-> "no-entry"]

\* entriesMap: kpiEntries.forEach((entry) => entriesMap.set(entry.createdFor,
\* entry)), so the last entry found for a member is the one kept
EntriesMap(kpiEntries) ==
    [m \in MemberIds |->
        LET mine == {k \in 1..Len(kpiEntries) : entries[kpiEntries[k]].createdFor = m}
        IN  IF mine = {} THEN NoEntry
            ELSE LET k == CHOOSE k \in mine : \A j \in mine : j <= k
                 IN  [id |-> kpiEntries[k],
                      totalScore |-> entries[kpiEntries[k]].totalScore,
                      status |-> entries[kpiEntries[k]].status]]

\* the keys of membersByRole in insertion order
RECURSIVE RolesInOrder(_, _)
RolesInOrder(members, acc) ==
    IF members = <<>> THEN acc
    ELSE RolesInOrder(Tail(members),
            IF \E i \in 1..Len(acc) : acc[i] = Head(members).role
            THEN acc ELSE Append(acc, Head(members).role))

RoleReports(roster, entriesMap) ==
    LET roles == RolesInOrder(roster, <<>>)
    IN  [r \in 1..Len(roles) |->
            RoleReport(roles[r],
                SelectSeqBy(roster, [i \in 1..Len(roster) |-> roster[i].role = roles[r]]),
                entriesMap)]

\* roleReports.flatMap((report) => report.rankings)
RECURSIVE FlatRankings(_)
FlatRankings(roleReports) ==
    IF roleReports = <<>> THEN <<>>
    ELSE Head(roleReports).rankings \o FlatRankings(Tail(roleReports))

\* entriesToUpdate: the ids of the entries the rankings show, each of them
\* read with a status other than generated
EntriesToUpdate(roleReports) ==
    LET all == FlatRankings(roleReports)
        shown == SelectSeqBy(all,
                    [i \in 1..Len(all) |-> all[i].hasEntry /\ all[i].status # "generated"])
    IN  [i \in 1..Len(shown) |-> shown[i].entryId]

\* the locals of generateReportByDepartment at the end of its role loop
GenerateLocals(department, templateId, generatedBy) ==
    LET allMembers == getMembers(department)
        kpiEntries == SelectEntries(templateId, allMembers)
        roleReports == RoleReports(allMembers, EntriesMap(kpiEntries))
    IN  [op |-> "generate", department |-> department, templateId |-> templateId,
         generatedBy |-> generatedBy,
         selected |-> Range(kpiEntries),
         storeSize |-> Len(entries),
         roleReports |-> roleReports,
         entriesToUpdate |-> EntriesToUpdate(roleReports)]

\* a bulk update that would select by status again instead of by id
LockEntriesByFilter(ids) ==
    [i \in EntryIds |-> [entries[i] EXCEPT !.status = "generated"]]

\* the entry store after updateMany({ _id: { $in: ids } }, { status: 'generated' })
LockEntries(ids) ==
    [i \in EntryIds |->
        IF i \in ids THEN [entries[i] EXCEPT !.status = "generated"] ELSE entries[i]]

\* the departmentReport built from the locals c
DepartmentReport(c) ==
    LET allRankings == FlatRankings(c.roleReports)
        departmentTotalMembers == Len(allRankings)
        departmentMembersWithEntries == Len(WithEntry(allRankings))
    IN  [department |-> c.department,
         templateId |-> c.templateId,
         templateName |-> getKpiTemplate(c.templateId).name,
         generatedBy |-> c.generatedBy,
         roleReports |-> c.roleReports,
         departmentStatistics |->
            [totalMembers |-> departmentTotalMembers,
             membersWithEntries |-> departmentMembersWithEntries,
             membersWithoutEntries |->
                departmentTotalMembers - departmentMembersWithEntries,
             averageScore |-> IF departmentMembersWithEntries > 0
                              THEN RoundDiv(SumTotalScores(WithEntry(allRankings)) * 100,
                                            departmentMembersWithEntries)
                              ELSE 0,
             completionRate |-> completionRate(departmentMembersWithEntries,
                                               departmentTotalMembers),
             totalRoles |-> Len(c.roleReports)],
         entriesUpdated |-> Len(c.entriesToUpdate)]

\* the members a report shows with hasEntry, and the entryIds it shows
MembersWithEntry(report) ==
    LET all == FlatRankings(report.roleReports)
    IN  {all[i].memberId : i \in {j \in 1..Len(all) : all[j].hasEntry}}
EntriesShown(report) ==
    LET all == FlatRankings(report.roleReports)
    IN  {all[i].entryId : i \in {j \in 1..Len(all) : all[j].hasEntry}}

\* the bulk status update, the department statistics, the audit record and the
\* return of the report, for a call with locals c; storeSize and lockedAt are the sizes the
\* store had when the call selected its entries and when it updated them
LockAndReport(p, c) ==
    LET report == DepartmentReport(c)
        ids == Range(c.entriesToUpdate)
    IN  /\ entries' = IF c.entriesToUpdate # <<>> THEN LockEntries(ids) ELSE entries
        /\ Return(p, [status |-> 200, title |-> "", message |-> "",
                      report |-> report, storeSize |-> c.storeSize,
                      lockedAt |-> Len(entries),
                      audit |-> KpiAuditLogServiceCreate("generate_report")])
        /\ reported' = [i \in EntryIds |->
                          IF i \in EntriesShown(report) /\ reported[i] < 2
                          THEN reported[i] + 1 ELSE reported[i]]

\* a whole generateReportByDepartment call
generateReportByDepartment(p, department, templateId, generatedBy) ==
    /\ pc[p] = "idle"
    /\ UNCHANGED <<now, sink, templates>>
    /\ IF ~HasTemplate(templateId)
       THEN /\ Return(p, TemplateNotFound)
                    /\ UNCHANGED <<entries, reported>>
       ELSE LockAndReport(p, GenerateLocals(department, templateId, generatedBy))

\* generateReportByDepartment from its start to the await of updateMany
GenerateStart(p, department, templateId, generatedBy) ==
    /\ pc[p] = "idle"
    /\ UNCHANGED <<now, sink, templates, entries, reported>>
    /\ IF ~HasTemplate(templateId)
       THEN Return(p, TemplateNotFound)
       ELSE Await(p, "generateLock",
                  GenerateLocals(department, templateId, generatedBy))

\* generateReportByDepartment from there to its return
GenerateLock(p) ==
    /\ pc[p] = "generateLock"
    /\ LockAndReport(p, call[p])
    /\ UNCHANGED <<now, sink, templates>>

\* ------------------------------------------------------- specifications
\* calls run one at a time, each to completion before the next starts
Next ==
    \/ Tick
    \/ \E kpiEntry \in CreateBodies, userId \in UserIds :
            createKpiEntry(1, kpiEntry, userId)
    \/ \E entryId \in 1..MaxEntries, updateData \in Patches, userId \in UserIds :
            updateKpiEntry(1, entryId, updateData, userId)
    \/ \E args \in GenerateArgs, generatedBy \in UserIds :
            generateReportByDepartment(1, args[1], args[2], generatedBy)

Spec == Init /\ [][Next]_vars

\* calls overlap inside one clock tick: a call is suspended at each of its
\* awaits while the others run
ConcBodies ==
    [kpiTemplateId : {"t1"}, createdFor : {"m1"},
     values : {<< SV("calls", Num(7)) >>}, status : {Absent},
     hasTotalScore : {FALSE}, totalScore : {0}]

ConcPatches ==
    { [NoPatch EXCEPT !.hasValues = TRUE,
                      !.values = << SV("calls", Num(2)), SV("attendance", Num(80)) >>],
      [NoPatch EXCEPT !.status = "initiated"] }

InitConc ==
    /\ Init
    /\ now = Noon(2026, 0, 30)
    /\ templates.t1.frequency = "daily"

NextConc ==
    \E p \in Calls :
        \/ \E kpiEntry \in ConcBodies, userId \in UserIds :
                CreateStart(p, kpiEntry, userId)
        \/ CreateCheckGenerated(p)
        \/ CreateWrite(p)
        \/ \E entryId \in 1..MaxEntries, updateData \in ConcPatches, userId \in UserIds :
                UpdateStart(p, entryId, updateData, userId)
        \/ UpdateWrite(p)
        \/ \E generatedBy \in UserIds : GenerateStart(p, "d1", "t1", generatedBy)
        \/ GenerateLock(p)

SpecConc == InitConc /\ [][NextConc]_vars

\* ------------------------------------------- createSystemGeneratedEntry
\* the values of an automated source; the source goes into the comments only
SystemValue(name, value) == [name |-> name, value |-> value, source |-> "crm"]

SystemValueSets ==
    { << SystemValue("calls", Num(7)) >>,
      << SystemValue("calls", Num(7)), SystemValue("attendance", Num(80)) >>,
      << SystemValue("attendance", Num(80)) >> }

\* systemValues.map: each value is marked isByPassed and is given no score
SystemEntryValues(systemValues) ==
    [i \in 1..Len(systemValues) |->
        [name |-> systemValues[i].name, value |-> systemValues[i].value,
         hasScore |-> FALSE, score |-> 0, isByPassed |-> TRUE]]

\* what createSystemGeneratedEntry throws. KpiEntryModel.create is handed
\* { kpiTemplateId, userId, values, totalScore, createdBy: 'system' }: the
\* schema has no userId path and requires createdFor, so the document of a
\* call that passed the validation is refused as well
SystemEntryError(kpiTemplateId, userId, systemValues) ==
    IF ~HasTemplate(kpiTemplateId)
    THEN Error(500, "KPI template not found", "")
    ELSE LET validated == validateAndCalculateScores(
                              SystemEntryValues(systemValues),
                              getKpiTemplate(kpiTemplateId).template)
         IN  IF ~validated.ok THEN ValidationError(validated)
             ELSE Error(500, "ValidationError", "createdFor is required")

\* a whole createSystemGeneratedEntry call
createSystemGeneratedEntry(p, kpiTemplateId, userId, systemValues) ==
    /\ pc[p] = "idle"
    /\ UNCHANGED <<now, sink, templates, entries, reported>>
    /\ Return(p, SystemEntryError(kpiTemplateId, userId, systemValues))

\* ------------------------------------------- calls and their environment
\* a body whose value is bypassed, with the score it submits
BypassBodies ==
    [kpiTemplateId : {"t1"}, createdFor : {"m1"},
     values : {<< [name |-> "calls", value |-> Num(7), hasScore |-> TRUE,
                   score |-> 9, isByPassed |-> TRUE] >>},
     status : {Absent}, hasTotalScore : {FALSE}, totalScore : {0}]

\* the audit sink goes down or comes back
SinkChange ==
    /\ sink' = IF sink = "up" THEN "down" ELSE "up"
    /\ UNCHANGED <<now, templates, entries, pc, call, resp, reported>>

InitEnv ==
    /\ now = Noon(2026, 0, 30)
    /\ templates \in TemplateStores /\ templates.t1.frequency = "daily"
    /\ entries = <<>>
    /\ pc = [p \in Calls |-> "idle"]
    /\ call = [p \in Calls |-> IdleCall]
    /\ resp = [p \in Calls |-> NoResp]
    /\ reported = <<>>
    /\ sink \in {"up", "down"}

\* bodies and patches of the calls made in this environment: the body and the
\* patches of overlapping calls, the bypassed body and a body that lacks the
\* required item
EnvBodies ==
    ConcBodies \cup BypassBodies
    \cup [kpiTemplateId : {"t1"}, createdFor : {"m1"},
          values : {<< SV("attendance", Num(80)) >>}, status : {Absent},
          hasTotalScore : {FALSE}, totalScore : {0}]

EnvPatches ==
    ConcPatches
    \cup { [NoPatch EXCEPT !.hasValues = TRUE,
                           !.values = << SV("attendance", Num(80)) >>] }

\* calls one at a time, with bypassed values, the entries of the automated
\* source and an audit sink that fails
NextEnv ==
    \/ Tick
    \/ SinkChange
    \/ \E kpiEntry \in EnvBodies, userId \in UserIds :
            createKpiEntry(1, kpiEntry, userId)
    \/ \E entryId \in 1..MaxEntries, updateData \in EnvPatches, userId \in UserIds :
            updateKpiEntry(1, entryId, updateData, userId)
    \/ \E args \in GenerateArgs, generatedBy \in UserIds :
            generateReportByDepartment(1, args[1], args[2], generatedBy)
    \/ \E kpiTemplateId \in {"t1", "tX"}, systemValues \in SystemValueSets :
            createSystemGeneratedEntry(1, kpiTemplateId, "m1", systemValues)

SpecEnv == InitEnv /\ [][NextEnv]_vars

\* ------------------------------------------- the functions on their own
\* one call of a pure function of the service: slot 1 holds its arguments in
\* call[1] and, once it has run, what it returned or threw in resp[1]
PureItems ==
    SalesItems
    \o << [name |-> "onTime", kpiType |-> "binary", maxMarks |-> 2,
           isDynamic |-> FALSE,
           scoringRules |-> << ValueRule(Bool(TRUE), 2) >>] >>

\* a submitted value { name, value, score?, isByPassed? }
Submitted(name, value, hasScore, isByPassed) ==
    [name |-> name, value |-> value, hasScore |-> hasScore,
     score |-> IF hasScore THEN 9 ELSE 0, isByPassed |-> isByPassed]

\* submitted values: of the right and of the wrong type, with and without a
\* score, bypassed or not, and of a name ("other") that no item has
PureValues ==
    { Submitted("calls", Num(7), FALSE, FALSE),
      Submitted("calls", Num(7), TRUE, FALSE),
      Submitted("calls", Str(1), FALSE, FALSE),
      Submitted("calls", Str(1), TRUE, TRUE),
      Submitted("calls", Num(7), FALSE, TRUE),
      Submitted("attendance", Num(80), FALSE, FALSE),
      Submitted("attendance", Bool(TRUE), FALSE, FALSE),
      Submitted("attendance", Num(80), TRUE, TRUE),
      Submitted("onTime", Bool(TRUE), FALSE, FALSE),
      Submitted("onTime", Num(7), FALSE, FALSE),
      Submitted("onTime", Bool(TRUE), FALSE, TRUE),
      Submitted("other", Num(7), FALSE, FALSE),
      Submitted("other", Str(1), FALSE, TRUE),
      Submitted("other", Bool(TRUE), TRUE, FALSE) }

SeqsUpTo(S, n) == UNION {[1..k -> S] : k \in 0..n}

ValidateCalls ==
    { [op |-> "validate", values |-> v, templateItems |-> PureItems] :
        v \in SeqsUpTo(PureValues, MaxValues) }

\* scoring rules and values to score; Num(1) and Bool(TRUE) differ in type only
PureRules ==
    { ValueRule(Num(90), 5), ValueRule(Num(75), 3), ValueRule(Num(1), 6),
      ValueRule(Bool(TRUE), 2), ValueRule(Str(1), 4),
      RangeRule(0, 60, 1), RangeRule(50, 100, 2) }

PureScored ==
    { Num(1), Num(50), Num(80), Num(95), Bool(TRUE), Bool(FALSE), Str(1) }

KpiTypes == {"quantitative", "percentage", "binary", "qualitative", "score"}

\* a percentage item compares numbers: its exact-value rules hold numbers
ScoreCalls ==
    { c \in [op : {"score"}, value : PureScored,
             scoringRules : SeqsUpTo(PureRules, MaxRules), kpiType : KpiTypes] :
        c.kpiType = "percentage"
        => \A i \in 1..Len(c.scoringRules) :
              c.scoringRules[i].hasValue => c.scoringRules[i].value.t = "number" }

\* rosters of one role and the entry found for each of its members, if any
RankIds == << "u1", "u2", "u3", "u4", "u5", "u6" >>
RankScores == {70, 80, 90}
Roster(n) ==
    [i \in 1..n |-> [userId |-> RankIds[i], role |-> "sales", departmentSlug |-> "d1"]]

RankCalls ==
    UNION { { [op |-> "rank", role |-> "sales", members |-> Roster(n),
               entriesMap |->
                  [m \in {RankIds[i] : i \in 1..n} |->
                      LET i == CHOOSE i \in 1..n : RankIds[i] = m
                      IN  IF found[i] = 0 THEN NoEntry
                          ELSE [id |-> i, totalScore |-> found[i],
                                status |-> "initiated"]]] :
              found \in [1..n -> RankScores \cup {0}] } :
            n \in 0..MaxRoster }

\* reference instants: every tick from 25 Dec 2023 to 5 Jan 2025 (a leap year)
WindowCalls ==
    [op : {"window"}, frequency : Frequencies,
     currentDate : NewDate(2023, 11, 25)..NewDate(2025, 0, 5)]

InitPure ==
    /\ now = Noon(2026, 0, 30)
    /\ templates \in TemplateStores /\ templates.t1.frequency = "daily"
    /\ entries = <<>>
    /\ reported = <<>>
    /\ sink = "up"
    /\ resp = [p \in Calls |-> NoResp]
    /\ \E c \in ValidateCalls \cup ScoreCalls \cup RankCalls \cup WindowCalls :
          call = [p \in Calls |-> IF p = 1 THEN c ELSE IdleCall]
    /\ pc = [p \in Calls |-> IF p = 1 THEN "pure" ELSE "idle"]

\* the call in slot 1 is one of op and has not run yet
Pending(op) == pc[1] = "pure" /\ call[1].op = op
Ran(op) == pc[1] = "done" /\ call[1].op = op

\* the call in slot 1 runs and leaves r
Done(r) ==
    /\ pc' = [pc EXCEPT ![1] = "done"]
    /\ resp' = [resp EXCEPT ![1] = r]
    /\ UNCHANGED <<now, sink, templates, entries, call, reported>>

Validate ==
    /\ Pending("validate")
    /\ Done(validateAndCalculateScores(call[1].values, call[1].templateItems))

Score ==
    /\ Pending("score")
    /\ Done([score |-> calculateScore(call[1].value, call[1].scoringRules,
                                      call[1].kpiType)])

Rank ==
    /\ Pending("rank")
    /\ Done(RoleReport(call[1].role, call[1].members, call[1].entriesMap))

Window ==
    /\ Pending("window")
    /\ Done(PeriodWindow(call[1].frequency, call[1].currentDate))

NextPure == Validate \/ Score \/ Rank \/ Window

SpecPure == InitPure /\ [][NextPure]_vars

\* ------------------------------------------------------- stated periods
\* the start of the calendar period of frequency that holds the instant t:
\* its day, its Monday-start week, its month, its quarter, its year
PeriodStart(frequency, t) ==
    CASE frequency = "daily" -> DayOf(t) * TicksPerDay
      [] frequency = "weekly" -> (DayOf(t) - ((getDay(t) + 6) % 7)) * TicksPerDay
      [] frequency = "monthly" -> NewDate(getFullYear(t), getMonth(t), 1)
      [] frequency = "quarterly" -> NewDate(getFullYear(t), (getMonth(t) \div 3) * 3, 1)
      [] frequency = "yearly" -> NewDate(getFullYear(t), 0, 1)

InSamePeriod(frequency, a, b) == PeriodStart(frequency, a) = PeriodStart(frequency, b)

\* the same period as the update rule words it: for weekly, the same
\* Monday-start week and the same year
InSameUpdatePeriod(frequency, a, b) ==
    /\ InSamePeriod(frequency, a, b)
    /\ frequency = "weekly" => getFullYear(a) = getFullYear(b)

SamePair(a, b) == a.kpiTemplateId = b.kpiTemplateId /\ a.createdFor = b.createdFor

IsReport(r) == "report" \in DOMAIN r
IsCreated(r) == r.status = 201

\* ------------------------------------------------------------------- C1
\* C1: with calls run one after the other, no two entries with a status other
\* than generated share a (kpiTemplateId, createdFor) pair and have their
\* createdAt in the same period of the template's frequency
C1_OnePerPeriod ==
    \A i \in EntryIds, j \in EntryIds :
        (/\ i < j
         /\ SamePair(entries[i], entries[j])
         /\ entries[i].status # "generated"
         /\ entries[j].status # "generated"
         /\ HasTemplate(entries[i].kpiTemplateId))
        => ~InSamePeriod(getKpiTemplate(entries[i].kpiTemplateId).frequency,
                         entries[i].createdAt, entries[j].createdAt)

\* ------------------------------------------------------------------- C2
\* C2: a generated entry is never changed by any call, and updateKpiEntry on a
\* generated entry throws EntryLocked and leaves the store as it was
C2_GeneratedIsTerminal ==
    [][ \A e \in EntryIds :
          entries[e].status = "generated"
          => /\ entries'[e] = entries[e]
             /\ \A updateData \in Patches, userId \in UserIds :
                   updateKpiEntry(1, e, updateData, userId)
                   => (resp'[1] = EntryLocked /\ entries' = entries) ]_vars

\* an update of a generated entry has been refused
C2_Witness ==
    /\ resp[1] = EntryLocked
    /\ \E e \in EntryIds : entries[e].status = "generated" /\ reported[e] = 1

\* ------------------------------------------------------------------- C3
\* C3: every entry createKpiEntry stores is initiated, and the status of a
\* stored entry changes only in a generateReportByDepartment call, to generated
C3_SoleWayToGenerated ==
    [][ \A e \in 1..Len(entries') :
          IF e > Len(entries)
          THEN entries'[e].status = "initiated"
          ELSE entries'[e].status # entries[e].status
               => /\ entries'[e].status = "generated"
                  /\ \E args \in GenerateArgs, generatedBy \in UserIds :
                        generateReportByDepartment(1, args[1], args[2], generatedBy)
      ]_vars

\* ------------------------------------------------------------------- C4
\* C4: a createKpiEntry for a pair that has a generated entry is rejected with
\* a 409 Conflict and stores nothing
C4_PermanentLock ==
    [][ \A kpiEntry \in CreateBodies, userId \in UserIds :
          (createKpiEntry(1, kpiEntry, userId)
             /\ \E e \in EntryIds : /\ SamePair(entries[e], kpiEntry)
                                    /\ entries[e].status = "generated")
          => (resp'[1].status = 409 /\ entries' = entries) ]_vars

\* ------------------------------------------------------------------- C5
\* C5: on a daily template, for a pair without generated entry, a create with
\* matching role and valid values is rejected with PeriodConflict when an
\* entry of the pair was created today, and stores its entry when every entry
\* of the pair was created on an earlier day
C5_DailyGuard ==
    [][ \A kpiEntry \in CreateBodies, userId \in UserIds :
          (/\ HasTemplate(kpiEntry.kpiTemplateId)
           /\ getKpiTemplate(kpiEntry.kpiTemplateId).frequency = "daily"
           /\ getKpiTemplate(kpiEntry.kpiTemplateId).role = getMember(kpiEntry.createdFor).role
           /\ ~\E e \in EntryIds : /\ SamePair(entries[e], kpiEntry)
                                   /\ entries[e].status = "generated"
           /\ validateAndCalculateScores(kpiEntry.values,
                  getKpiTemplate(kpiEntry.kpiTemplateId).template).ok
           /\ createKpiEntry(1, kpiEntry, userId))
          => LET mine == {e \in EntryIds : SamePair(entries[e], kpiEntry)}
             IN  /\ (\E e \in mine : DayOf(entries[e].createdAt) = DayOf(now))
                    => (resp'[1] = PeriodConflict /\ entries' = entries)
                 /\ (\A e \in mine : DayOf(entries[e].createdAt) < DayOf(now))
                    => /\ IsCreated(resp'[1])
                       /\ Len(entries') = Len(entries) + 1
                       /\ SubSeq(entries', 1, Len(entries)) = entries
                       /\ SamePair(entries'[Len(entries')], kpiEntry)
                       /\ entries'[Len(entries')].createdAt = now ]_vars

\* a daily pair holds initiated entries of two days, the second just created
C5_Witness ==
    /\ templates.t1.frequency = "daily"
    /\ Len(entries) = 2
    /\ SamePair(entries[1], entries[2])
    /\ entries[1].status = "initiated" /\ entries[2].status = "initiated"
    /\ DayOf(entries[1].createdAt) < DayOf(entries[2].createdAt)
    /\ IsCreated(resp[1]) /\ resp[1].entryId = 2

\* ------------------------------------------------------------------- C6
\* C6: the frequency check of a create reads stored entries only, so it
\* passes while another create of the pair is in flight, and the write of a
\* create stores its entry whatever the store holds by then
C6_UncheckedWrite ==
    [][ \A p \in Calls :
          /\ \A kpiEntry \in ConcBodies, userId \in UserIds :
                (CreateStart(p, kpiEntry, userId)
                   /\ ~\E e \in EntryIds : SamePair(entries[e], kpiEntry))
                => pc'[p] = "createGenerated"
          /\ (pc[p] = "createWrite" /\ pc'[p] # "createWrite")
             => /\ Len(entries') = Len(entries) + 1
                /\ SamePair(entries'[Len(entries')], call[p].kpiEntry)
                /\ IsCreated(resp'[p]) ]_vars

\* two creates of one pair each checked before the other wrote, both returned
\* 201, and their entries are both initiated in the same day
C6_Witness ==
    /\ IsCreated(resp[1]) /\ IsCreated(resp[2])
    /\ resp[1].checkedAt < resp[2].entryId
    /\ resp[2].checkedAt < resp[1].entryId
    /\ SamePair(entries[resp[1].entryId], entries[resp[2].entryId])
    /\ entries[1].status = "initiated" /\ entries[2].status = "initiated"
    /\ InSamePeriod(templates.t1.frequency, entries[1].createdAt, entries[2].createdAt)

\* ------------------------------------------------------------------- C7
\* C7: under any interleaving, no entry appears in more than one returned
\* report and every generated entry appears in exactly one
C7_ReportedOnce ==
    \A e \in EntryIds :
        /\ reported[e] <= 1
        /\ entries[e].status = "generated" => reported[e] = 1

\* ------------------------------------------------------------------- C8
\* C8: the bulk update of a run leaves alone every entry stored after the run
\* read its selection, and the selection of a run holds every entry of the
\* template and roster that is not generated
C8_LateEntrySurvives ==
    [][ \A p \in Calls :
          /\ (pc[p] = "generateLock" /\ pc'[p] # "generateLock")
             => \A e \in EntryIds : e > call[p].storeSize => entries'[e] = entries[e]
          /\ (pc[p] = "idle" /\ pc'[p] = "generateLock")
             => \A e \in EntryIds :
                   (/\ entries[e].kpiTemplateId = call'[p].templateId
                    /\ \E i \in 1..Len(MemberDocs) :
                          /\ MemberDocs[i].userId = entries[e].createdFor
                          /\ MemberDocs[i].departmentSlug = call'[p].department
                    /\ entries[e].status # "generated")
                   => e \in call'[p].selected ]_vars

\* a run has returned, and an entry stored between its selection and its bulk
\* update is still initiated
C8_Witness ==
    \E p \in Calls, q \in Calls :
        /\ IsReport(resp[p]) /\ IsCreated(resp[q])
        /\ resp[p].storeSize < resp[q].entryId
        /\ resp[q].entryId <= resp[p].lockedAt
        /\ resp[p].report.entriesUpdated > 0
        /\ entries[resp[q].entryId].status = "initiated"

\* ------------------------------------------------------------------- C9
\* C9: when a generateReportByDepartment call directly follows one for the
\* same department and template, no member the first report showed with an
\* entry is shown with an entry by the second
C9_SecondReportEmpty ==
    [][ \A args \in GenerateArgs, generatedBy \in UserIds :
          (/\ generateReportByDepartment(1, args[1], args[2], generatedBy)
           /\ IsReport(resp[1]) /\ IsReport(resp'[1])
           /\ resp[1].report.department = args[1]
           /\ resp[1].report.templateId = args[2])
          => MembersWithEntry(resp[1].report)
               \cap MembersWithEntry(resp'[1].report) = {} ]_vars

\* ------------------------------------------------------------------ C10
\* C10: an updateKpiEntry of an initiated entry with acceptable values
\* succeeds when now is in the same period as the entry's createdAt (for
\* weekly: the same Monday-start week and year), and otherwise throws
\* UpdateWindowClosed and leaves the store as it was
C10_UpdateWindowIsPeriod ==
    [][ \A e \in EntryIds, updateData \in Patches, userId \in UserIds :
          (/\ updateKpiEntry(1, e, updateData, userId)
           /\ entries[e].status = "initiated"
           /\ HasTemplate(entries[e].kpiTemplateId)
           /\ updateData.hasValues =>
                 validateAndCalculateScores(updateData.values,
                     getKpiTemplate(entries[e].kpiTemplateId).template).ok)
          => IF InSameUpdatePeriod(getKpiTemplate(entries[e].kpiTemplateId).frequency,
                                   entries[e].createdAt, now)
             THEN resp'[1].status = 200
             ELSE resp'[1] = UpdateWindowClosed /\ entries' = entries ]_vars

\* ------------------------------------------------------------------ C11
\* C11: the totalScore of every stored entry is the sum of the scores of its
\* stored values
C11_TotalIsSum ==
    \A e \in EntryIds :
        entries[e].totalScore
          = SumScores([i \in 1..Len(entries[e].values) |-> entries[e].values[i]])

\* an update that carried values has replaced the values of an entry and its
\* total of several scores
C11_Witness ==
    /\ resp[1].status = 200 /\ ~IsReport(resp[1])
    /\ Len(entries[resp[1].entryId].values) = 2
    /\ entries[resp[1].entryId].totalScore = 4

\* ------------------------------------------------- stated validation
\* the item of items that a submitted value names (item names are unique)
IsNamed(items, v) == \E k \in 1..Len(items) : items[k].name = v.name
ItemNamed(items, v) == items[CHOOSE k \in 1..Len(items) : items[k].name = v.name]

\* the names of the non-dynamic items that values provides no value for
MissingRequired(values, items) ==
    {items[k].name : k \in {j \in 1..Len(items) :
        ~items[j].isDynamic
        /\ ~\E i \in 1..Len(values) : values[i].name = items[j].name}}

TypeFits(kpiType, value) ==
    /\ kpiType \in {"quantitative", "percentage", "score"} => value.t = "number"
    /\ kpiType = "binary" => value.t = "boolean"

\* a value that names an item and is refused: bypassed without a score, or
\* not bypassed and of the wrong type
IsRefused(items, v) ==
    /\ IsNamed(items, v)
    /\ IF v.isByPassed THEN ~v.hasScore
       ELSE ~TypeFits(ItemNamed(items, v).kpiType, v.value)

\* value i is the first refused one of a submission that lacks no required item
FirstRefused(values, items, i) ==
    /\ MissingRequired(values, items) = {}
    /\ IsRefused(items, values[i])
    /\ \A j \in 1..(i - 1) : ~IsRefused(items, values[j])

\* no check refuses the submission
Acceptable(values, items) ==
    /\ MissingRequired(values, items) = {}
    /\ \A i \in 1..Len(values) : ~IsRefused(items, values[i])

\* where value i stands among the values that name an item
PlaceOf(values, items, i) ==
    Cardinality({j \in 1..i : IsNamed(items, values[j])})

MissingRequiredValues(r) == ~r.ok /\ r.title = "Missing required values"
MissingBypassScore == Failure(400, "Missing score field")
InvalidValueType == Failure(400, "Invalid value type")

\* ------------------------------------------------------------------ C12
\* C12: validateAndCalculateScores fails with MissingRequiredValues exactly
\* when a non-dynamic item has no submitted value, the error names exactly
\* those items, and leaving out dynamic items alone never makes it fail
C12_MissingRequired ==
    Ran("validate") =>
        LET values == call[1].values
            items == call[1].templateItems
        IN  /\ MissingRequiredValues(resp[1]) <=> MissingRequired(values, items) # {}
            /\ MissingRequiredValues(resp[1])
               => /\ Range(resp[1].missing) = MissingRequired(values, items)
                  /\ Len(resp[1].missing) = Cardinality(MissingRequired(values, items))
            /\ (\A i \in 1..Len(values) :
                    ~IsRefused(items, values[i]) /\ IsNamed(items, values[i]))
               => (resp[1].ok <=> \A k \in 1..Len(items) :
                                     items[k].isDynamic \/ items[k].name \in Names(values))

\* a submission that carries the dynamic item only has failed, naming both
\* non-dynamic items
C12_Witness ==
    /\ Ran("validate")
    /\ Names(call[1].values) = {"attendance"}
    /\ MissingRequiredValues(resp[1])
    /\ resp[1].missing = << "calls", "onTime" >>

\* ------------------------------------------------------------------ C13
\* C13: a bypassed value that names an item makes the call fail with
\* MissingBypassScore when it has no score (and no earlier check fails), and
\* otherwise comes out with the supplied score, whatever its value, the
\* item's kpiType and its rules
C13_Bypass ==
    Ran("validate") =>
        LET values == call[1].values
            items == call[1].templateItems
        IN  \A i \in 1..Len(values) :
                (values[i].isByPassed /\ IsNamed(items, values[i]))
                => /\ ~values[i].hasScore => ~resp[1].ok
                   /\ FirstRefused(values, items, i) => resp[1] = MissingBypassScore
                   /\ (values[i].hasScore /\ Acceptable(values, items))
                      => /\ resp[1].ok
                         /\ resp[1].values[PlaceOf(values, items, i)].name = values[i].name
                         /\ resp[1].values[PlaceOf(values, items, i)].score = values[i].score

\* a bypassed string for a quantitative item has come out with its supplied
\* score
C13_Witness ==
    /\ Ran("validate")
    /\ resp[1].ok
    /\ \E i \in 1..Len(resp[1].values) :
          /\ resp[1].values[i].isByPassed
          /\ resp[1].values[i].name = "calls"
          /\ resp[1].values[i].value = Str(1)
          /\ resp[1].values[i].score = 9

\* ------------------------------------------------------------------ C14
\* C14: a value that is not bypassed and names an item comes out with the
\* score calculateScore gives its value under the item's rules, whatever score
\* was supplied, and makes the call fail with InvalidValueType when it is not
\* a number for quantitative, percentage or score, or not a boolean for binary
\* (and no earlier check fails)
C14_Scored ==
    Ran("validate") =>
        LET values == call[1].values
            items == call[1].templateItems
        IN  \A i \in 1..Len(values) :
                (~values[i].isByPassed /\ IsNamed(items, values[i]))
                => LET item == ItemNamed(items, values[i]) IN
                   /\ ~TypeFits(item.kpiType, values[i].value) => ~resp[1].ok
                   /\ FirstRefused(values, items, i) => resp[1] = InvalidValueType
                   /\ Acceptable(values, items)
                      => /\ resp[1].ok
                         /\ resp[1].values[PlaceOf(values, items, i)].name = values[i].name
                         /\ resp[1].values[PlaceOf(values, items, i)].score
                              = calculateScore(values[i].value, item.scoringRules,
                                               item.kpiType)

\* a value that is not bypassed and carries a score has come out with the
\* score of its rule instead
C14_Witness ==
    /\ Ran("validate")
    /\ resp[1].ok
    /\ \E i \in 1..Len(call[1].values) :
          /\ call[1].values[i] = Submitted("calls", Num(7), TRUE, FALSE)
          /\ resp[1].values[PlaceOf(call[1].values, call[1].templateItems, i)].score = 3

\* ------------------------------------------------------------------ C15
\* C15: the values that name no item are left out of the output and never
\* make the call fail, and the output holds the other values in the order
\* they were submitted
C15_Dropped ==
    Ran("validate") =>
        LET values == call[1].values
            items == call[1].templateItems
            named == SelectSeqBy(values,
                        [i \in 1..Len(values) |-> IsNamed(items, values[i])])
        IN  /\ resp[1].ok <=> Acceptable(values, items)
            /\ resp[1].ok
               => /\ Len(resp[1].values) = Len(named)
                  /\ \A k \in 1..Len(named) :
                        /\ resp[1].values[k].name = named[k].name
                        /\ resp[1].values[k].value = named[k].value

\* a bypassed value without score that names no item was submitted first, and
\* the output holds the two other values only
C15_Witness ==
    /\ Ran("validate")
    /\ Len(call[1].values) = 3
    /\ call[1].values[1] = Submitted("other", Str(1), FALSE, TRUE)
    /\ resp[1].ok
    /\ Len(resp[1].values) = 2

C17_FirstMatch ==
    (Ran("score") /\ call[1].kpiType \in {"quantitative", "binary", "qualitative"})
    => LET rules == call[1].scoringRules
           v == call[1].value
           matching == {i \in 1..Len(rules) :
               IF rules[i].hasMin /\ rules[i].hasMax
               THEN v.t = "number" /\ rules[i].min <= v.n /\ v.n <= rules[i].max
               ELSE rules[i].hasValue /\ v.t = rules[i].value.t /\ v.n = rules[i].value.n}
       IN  IF matching = {} THEN resp[1].score = 0
           ELSE \E i \in matching :
                   /\ \A j \in matching : i <= j
                   /\ resp[1].score = rules[i].score

\* a number equal to a boolean rule's value but for its type has passed that
\* rule and scored by the range rule after it
C17_Witness ==
    /\ Ran("score") /\ call[1].kpiType = "quantitative"
    /\ call[1].scoringRules = << ValueRule(Bool(TRUE), 2), RangeRule(0, 60, 1) >>
    /\ call[1].value = Num(1)
    /\ resp[1].score = 1

\* ------------------------------------------------------------------ C18
\* C18: the rankings of a role list every member once, by totalScore
\* descending, a member without entry with totalScore 0 and hasEntry false,
\* and the ranking of each is 1 plus the number of members with a strictly
\* higher totalScore
C18_Ranking ==
    Ran("rank")
    => LET r == resp[1].rankings
           members == call[1].members
       IN  /\ Len(r) = Len(members)
           /\ {r[i].memberId : i \in 1..Len(r)}
                = {members[i].userId : i \in 1..Len(members)}
           /\ \A i \in 1..Len(r), j \in 1..Len(r) :
                 i < j => r[i].totalScore >= r[j].totalScore
           /\ \A i \in 1..Len(r) :
                 LET entry == call[1].entriesMap[r[i].memberId] IN
                 /\ r[i].hasEntry <=> entry.id # 0
                 /\ r[i].totalScore = IF entry.id # 0 THEN entry.totalScore ELSE 0
                 /\ r[i].ranking
                      = 1 + Cardinality({j \in 1..Len(r) :
                                            r[j].totalScore > r[i].totalScore})

\* scores 90, 90, 80, 70 have got the ranks 1, 1, 3, 4
C18_Witness ==
    /\ Ran("rank")
    /\ [i \in 1..Len(resp[1].rankings) |-> resp[1].rankings[i].totalScore]
         = << 90, 90, 80, 70 >>
    /\ [i \in 1..Len(resp[1].rankings) |-> resp[1].rankings[i].ranking]
         = << 1, 1, 3, 4 >>

\* ------------------------------------------------------------------ C19
\* C19: the completionRate of a returned department report is a number from
\* 0 to 100: 0 for an empty roster and round(100 x membersWithEntries /
\* totalMembers) otherwise
C19_CompletionRateDefined ==
    \A p \in Calls :
        IsReport(resp[p])
        => LET st == resp[p].report.departmentStatistics IN
           /\ ~st.completionRate.isNaN
           /\ st.completionRate.n \in 0..100
           /\ st.completionRate.n
                = IF st.totalMembers = 0 THEN 0
                  ELSE RoundDiv(100 * st.membersWithEntries, st.totalMembers)

\* ------------------------------------------------------------------ C20
\* C20: the window checkFrequencyValidation computes around an instant holds
\* that instant, for every frequency
C20_WindowHoldsInstant ==
    Ran("window")
    => /\ resp[1].startDate <= call[1].currentDate
       /\ call[1].currentDate <= resp[1].endDate

\* the window of the last tick of the leap day, monthly, has been computed
C20_Witness ==
    /\ Ran("window")
    /\ call[1].frequency = "monthly"
    /\ call[1].currentDate = NewDate(2024, 2, 1) - 1
    /\ resp[1].endDate = call[1].currentDate

\* ------------------------------------------------------------------ C21
\* C21: the weekly window starts at 00:00 of the Monday on or before the
\* reference instant and spans exactly seven days: it ends at the last
\* instant before the following Monday's midnight, which is not inside it
C21_WeeklySevenDays ==
    (Ran("window") /\ call[1].frequency = "weekly")
    => /\ getDay(resp[1].startDate) = 1
       /\ resp[1].startDate = StartOfDay(resp[1].startDate)
       /\ resp[1].startDate <= call[1].currentDate
       /\ call[1].currentDate < resp[1].startDate + 7 * TicksPerDay
       /\ resp[1].endDate = resp[1].startDate + 7 * TicksPerDay - 1

\* ------------------------------------------------------------------ C22
\* C22: the daily window runs from the midnight of the reference day to the
\* last instant before the next midnight, so the windows of consecutive days
\* share no instant and the midnight of day D+1 is outside the window of D
C22_DailyExcludesNextMidnight ==
    (Ran("window") /\ call[1].frequency = "daily")
    => /\ resp[1].startDate = StartOfDay(call[1].currentDate)
       /\ resp[1].endDate = resp[1].startDate + TicksPerDay - 1
       /\ StartOfDay(call[1].currentDate) + TicksPerDay > resp[1].endDate

\* ------------------------------------------------------------------ C23
\* C23: createKpiEntry fails with NotFound (404) and stores nothing when the
\* template id matches no template and likewise when createdFor matches no
\* member record; updateKpiEntry fails with NotFound (404) when the entry id
\* matches no entry
C23_NotFound ==
    [][/\ \A kpiEntry \in CreateBodies, userId \in UserIds :
            ( /\ \/ ~HasTemplate(kpiEntry.kpiTemplateId)
                 \/ kpiEntry.createdFor \notin MemberIds
              /\ createKpiEntry(1, kpiEntry, userId) )
            => /\ resp'[1].status = 404
               /\ entries' = entries
       /\ \A entryId \in 1..MaxEntries, updateData \in Patches, userId \in UserIds :
            ( /\ entryId \notin EntryIds
              /\ updateKpiEntry(1, entryId, updateData, userId) )
            => /\ resp'[1] = EntryNotFound
               /\ entries' = entries
      ]_vars

\* ------------------------------------------------------------------ C24
\* C24: a failure of the audit sink during createKpiEntry, updateKpiEntry or
\* generateReportByDepartment never makes the call fail: with the sink down a
\* call that passes its checks still writes and returns its normal result;
\* and an audit record is emitted only by a call that succeeded, after its
\* write to the store
C24_AuditIsBestEffort ==
    [][/\ \A p \in Calls :
            IsAudited(resp'[p]) => resp'[p].status \in {200, 201}
       /\ entries' # entries
            => /\ resp'[1].status \in {200, 201}
               /\ IsAudited(resp'[1])
               /\ resp'[1].audit.outcome = "rejected" <=> sink = "down"
       /\ \A kpiEntry \in EnvBodies, userId \in UserIds :
            ( /\ sink = "down"
              /\ CreatePrecheck(kpiEntry) = Pass
              /\ CreateScoring(kpiEntry) = Pass
              /\ createKpiEntry(1, kpiEntry, userId) )
            => /\ IsCreated(resp'[1])
               /\ entries' = Append(entries, NewEntry(kpiEntry, userId, now))
       /\ \A entryId \in EntryIds, updateData \in EnvPatches, userId \in UserIds :
            ( /\ sink = "down"
              /\ UpdateCheck(entryId, updateData) = Pass
              /\ updateKpiEntry(1, entryId, updateData, userId) )
            => /\ resp'[1].status = 200
               /\ resp'[1].entryId = entryId
               /\ entries'[entryId].values = UpdateValues(entryId, updateData)
       /\ \A args \in GenerateArgs, generatedBy \in UserIds :
            ( /\ sink = "down"
              /\ HasTemplate(args[2])
              /\ generateReportByDepartment(1, args[1], args[2], generatedBy) )
            => /\ IsReport(resp'[1])
               /\ \A e \in EntriesShown(resp'[1].report) :
                      entries'[e].status = "generated"
      ]_vars

\* an update changed the values of an entry and returned it while the audit
\* sink rejected its record
C24_Witness ==
    /\ resp[1].status = 200
    /\ IsAudited(resp[1])
    /\ resp[1].audit = [action |-> "update", outcome |-> "rejected"]
    /\ entries[resp[1].entryId].totalScore = 4

\* ------------------------------------------------------------------ C25
\* C25: with updateKpiEntry running concurrently with
\* generateReportByDepartment, the values and totalScore of an entry are never
\* modified once its status is generated: an update that read the entry as
\* initiated cannot write after the entry was locked, and the stored
\* totalScore stays the one the locking report showed
C25_NoWriteAfterLock ==
    [][\A e \in EntryIds :
          entries[e].status = "generated"
          => /\ entries'[e].status = "generated"
             /\ entries'[e].values = entries[e].values
             /\ entries'[e].totalScore = entries[e].totalScore
      ]_vars

\* ------------------------------------------------------------------ C26
\* C26: when generateReportByDepartment completes with no other call running,
\* every entry that matched its selection (the template's, for a member of
\* the department, not yet generated) is generated afterwards and is counted
\* in entriesUpdated, also when a member has several such entries
C26_LocksWholeSelection ==
    [][\A args \in GenerateArgs, generatedBy \in UserIds :
          ( /\ HasTemplate(args[2])
            /\ generateReportByDepartment(1, args[1], args[2], generatedBy) )
          => LET selected == Range(SelectEntries(args[2], getMembers(args[1])))
             IN  /\ \A e \in selected : entries'[e].status = "generated"
                 /\ resp'[1].report.entriesUpdated = Cardinality(selected)
      ]_vars

\* ------------------------------------------------------------------ C27
\* C27: a successful updateKpiEntry changes only the values and the totalScore
\* of the entry (and its updatedAt): the entry's kpiTemplateId, createdFor,
\* createdBy, createdAt and status are as before, whatever the patch carries,
\* and no other entry changes
C27_UpdateFrame ==
    [][\A entryId \in 1..MaxEntries, updateData \in Patches, userId \in UserIds :
          ( /\ entryId \in EntryIds
            /\ UpdateCheck(entryId, updateData) = Pass
            /\ updateKpiEntry(1, entryId, updateData, userId) )
          => /\ entries'[entryId].kpiTemplateId = entries[entryId].kpiTemplateId
             /\ entries'[entryId].createdFor = entries[entryId].createdFor
             /\ entries'[entryId].createdBy = entries[entryId].createdBy
             /\ entries'[entryId].createdAt = entries[entryId].createdAt
             /\ entries'[entryId].status = entries[entryId].status
             /\ \A e \in EntryIds \ {entryId} : entries'[e] = entries[e]
      ]_vars

\* ------------------------------------------------------------------ C28
\* C28: a createKpiEntry that fails, for whatever reason, stores no entry,
\* changes no existing entry and emits no audit record: every check comes
\* before the one write to the store
C28_FailedCreateWritesNothing ==
    [][\/ /\ entries' = entries
          /\ reported' = reported
          /\ ~IsAudited(resp'[1])
       \/ \A kpiEntry \in CreateBodies, userId \in UserIds :
            ~( /\ ~IsCreated(resp'[1])
               /\ createKpiEntry(1, kpiEntry, userId) )
      ]_vars

\* a create was refused because a generated entry of its pair exists, with
\* that entry as it was
C28_Witness ==
    /\ resp[1] = ReportAlreadyGenerated
    /\ Len(entries) = 1
    /\ entries[1].status = "generated"
    /\ entries[1].createdAt < StartOfDay(now)

\* ------------------------------------------------------------------ C29
\* C29: createSystemGeneratedEntry for an existing template, with system
\* values that name every non-dynamic item, succeeds and stores an entry for
\* the given user whose values each carry a score and whose totalScore is
\* the sum of those scores
C29_SystemEntryStored ==
    [][\A kpiTemplateId \in {"t1", "tX"}, systemValues \in SystemValueSets :
          ( /\ HasTemplate(kpiTemplateId)
            /\ missingNonDynamicKpis(SystemEntryValues(systemValues),
                                     getKpiTemplate(kpiTemplateId).template) = <<>>
            /\ createSystemGeneratedEntry(1, kpiTemplateId, "m1", systemValues) )
          => /\ resp'[1].status \in {200, 201}
             /\ Len(entries') = Len(entries) + 1
             /\ entries'[Len(entries')].createdFor = "m1"
             /\ entries'[Len(entries')].totalScore
                  = SumScores(entries'[Len(entries')].values)
      ]_vars

\* ------------------------------------------------------------------ C30
\* C30: in every entry stored by createKpiEntry or updateKpiEntry the score of
\* each value is at most the maxMarks of the template item it names, so the
\* totalScore is at most the sum of the maxMarks of the template's items
C30_ScoreWithinMaxMarks ==
    \A e \in EntryIds :
        HasTemplate(entries[e].kpiTemplateId)
        => LET items == getKpiTemplate(entries[e].kpiTemplateId).template
               SumMaxMarks[i \in 0..Len(items)] ==
                   IF i = 0 THEN 0 ELSE SumMaxMarks[i - 1] + items[i].maxMarks
           IN  /\ \A i \in 1..Len(entries[e].values) :
                      entries[e].values[i].score
                        <= items[FindItem(items, entries[e].values[i].name)].maxMarks
               /\ entries[e].totalScore <= SumMaxMarks[Len(items)]

====
